---- MODULE Spec2Model ----
(***************************************************************************)
(* vicostream: RTP H264 depacketizer, peer session and viewer coordinator. *)
(*                                                                         *)
(* The repository holds two variants of the H264 depacketizer:             *)
(*   - the sequence-aware one (src/unnamed/part_000), modelled by          *)
(*     Depacketize / depacketizeSTAPA / depacketizeFUA;                    *)
(*   - the one in src/internal/webrtc/depacketize.go, which is the one     *)
(*     Peer.readVideoTrack (peer.go:172) calls with the payload alone,     *)
(*     modelled by webrtcDepacketize / webrtcDepacketizeSTAPA /            *)
(*     webrtcDepacketizeFUA.                                               *)
(* Every packet of the model is handed to both variants side by side.      *)
(***************************************************************************)
EXTENDS Integers, Sequences, FiniteSets, TLC

VARIABLES
    inst,       \* handles d1, d2, ...: the address each NewH264Depacketizer call returned
    heap,       \* address -> H264Depacketizer object of part_000
    wheap,      \* address -> H264Depacketizer object of internal/webrtc/depacketize.go
    last,       \* the last Depacketize call: its inputs and what both variants returned
    run,        \* history, per handle: the contiguous FU-A run the inputs are in
    solo,       \* history, per handle: the part_000 object driven by that handle's calls only
    wsolo,      \* history, per handle: the webrtc object driven by that handle's calls only
    pending,    \* parse run: the packet drawn for the instance, until it is delivered
    peer,       \* webrtc.Peer: the remoteDescSet channel and what the engine was given
    tasks,      \* the goroutines Viewer.OnRemoteICECandidate started, in start order
    crashed,    \* the process died of a Go run-time panic
    calls,      \* history: the Handler events dispatched and what their calls returned
    sc,         \* signal.Client: the closed channel, the socket and the send lock mu
    procs,      \* where each goroutine of the session is in its code
    sess,       \* main's context and wiring, and what the session has consumed so far
    ev,         \* history: the frame the read loop took last and what its handler did
    readers     \* the goroutines the OnTrack callback started, and who called which object

\* the depacketizer state, the signaling state and the session state
dvars == <<inst, heap, wheap, last, run, solo, wsolo, pending, readers>>
gvars == <<sc, procs, sess, ev>>
svars == <<peer, tasks, crashed, calls, sc, procs, sess, ev>>
vars == <<inst, heap, wheap, last, run, solo, wsolo, pending, peer, tasks, crashed, calls,
          sc, procs, sess, ev, readers>>

(***************************************************************************)
(* Bounds of the model.                                                    *)
(***************************************************************************)
\* longest reassembly buffer a stream run lets grow
MaxBuf == 5
\* a stream run draws its sequence numbers from 65534 .. 65534 + SeqSpan, modulo 2^16
SeqSpan == 2
\* longest reassembly buffer a two-instance run lets grow
PairBuf == 3
\* a two-instance run draws its sequence numbers from 65535 .. 65535 + PairSpan, modulo 2^16
PairSpan == 1
\* tracks the engine delivers in a track run
MaxTracks == 2
\* RTP packets the readers of a track run read in all
MaxTrackPackets == 3
\* longest STAP-A body (bytes after the header byte) of a parse run
MaxTail == 7
\* longest body after an arbitrary header byte of a parse run
ShortTail == 1
\* SDP_ANSWER frames a session run dispatches
MaxAnswers == 2
\* ICE_CANDIDATE frames a session run dispatches
MaxCandidates == 2

(***************************************************************************)
(* Go byte and slice operations.                                           *)
(***************************************************************************)
\* payload[0] & 0x1f, fuHeader & 0x1f
NaluType(b) == b % 32

\* payload[0] & 0xe0
Fnri(b) == (b \div 32) * 32

\* fuHeader & 0x80 != 0
StartBit(b) == (b \div 128) % 2 = 1

\* fuHeader & 0x40 != 0
EndBit(b) == (b \div 64) % 2 = 1

\* p[i] is in range (Go panics otherwise)
IndexOK(p, i) == 0 <= i /\ i < Len(p)

\* p[lo:hi] is in range (Go panics otherwise)
SliceOK(p, lo, hi) == 0 <= lo /\ lo <= hi /\ hi <= Len(p)

\* p[i], 0-based
At(p, i) == IF IndexOK(p, i) THEN p[i + 1] ELSE 0

\* p[lo:hi], 0-based, hi exclusive
Slice(p, lo, hi) == IF SliceOK(p, lo, hi) THEN SubSeq(p, lo + 1, hi) ELSE <<>>

\* sequenceNumber + 1 in a type wider than uint16.
SeqInc_NoWrap(s) == s + 1

\* uint16 addition sequenceNumber + 1
SeqInc(s) == (s + 1) % 65536

(***************************************************************************)
(* The sequence-aware depacketizer (src/unnamed/part_000).                 *)
(* Every operation returns [d: the object after the call, nalus: the       *)
(* returned units (<<>> for nil), fault: a Go run-time panic happened].    *)
(***************************************************************************)
\* &H264Depacketizer{}
ZeroDepacketizer == [fuaBuf |-> <<>>, fuaStarted |-> FALSE, expectedSeq |-> 0]

\* A depacketizer that is one package-level object shared by all callers.
NewH264Depacketizer_Shared(h) ==
    IF Len(h) = 0
    THEN [heap |-> <<ZeroDepacketizer>>, addr |-> 1]
    ELSE [heap |-> h, addr |-> 1]

\* NewH264Depacketizer: a fresh object on the heap and its address
NewH264Depacketizer(h) ==
    [heap |-> Append(h, ZeroDepacketizer), addr |-> Len(h) + 1]

\* return nil / return [][]byte{...} with the object as it is after the call
Ret(d, nalus, fault) == [d |-> d, nalus |-> nalus, fault |-> fault]

\* the for loop that returns the bytes left after a size they do not fill.
RECURSIVE stapaLoop_ReturnsTruncated(_, _, _)
stapaLoop_ReturnsTruncated(payload, offset, nalus) ==
    IF offset + 2 <= Len(payload)
    THEN LET size == At(payload, offset) * 256 + At(payload, offset + 1)
             off2 == offset + 2
         IN  IF ~IndexOK(payload, offset) \/ ~IndexOK(payload, offset + 1)
             THEN [nalus |-> nalus, fault |-> TRUE]
             ELSE IF size = 0
             THEN [nalus |-> nalus, fault |-> FALSE]
             ELSE IF off2 + size > Len(payload)
             THEN [nalus |-> Append(nalus, Slice(payload, off2, Len(payload))),
                   fault |-> FALSE]
             ELSE IF ~SliceOK(payload, off2, off2 + size)
             THEN [nalus |-> nalus, fault |-> TRUE]
             ELSE stapaLoop_ReturnsTruncated(payload, off2 + size,
                            Append(nalus, Slice(payload, off2, off2 + size)))
    ELSE [nalus |-> nalus, fault |-> FALSE]

\* depacketizeSTAPA, the for loop: one iteration at `offset` with `nalus` collected so far
RECURSIVE stapaLoop(_, _, _)
stapaLoop(payload, offset, nalus) ==
    IF offset + 2 <= Len(payload)
    THEN LET size == At(payload, offset) * 256 + At(payload, offset + 1)
             off2 == offset + 2
         IN  IF ~IndexOK(payload, offset) \/ ~IndexOK(payload, offset + 1)
             THEN [nalus |-> nalus, fault |-> TRUE]
             ELSE IF size = 0
             THEN [nalus |-> nalus, fault |-> FALSE]
             ELSE IF off2 + size > Len(payload)
             THEN [nalus |-> nalus, fault |-> FALSE]
             ELSE IF ~SliceOK(payload, off2, off2 + size)
             THEN [nalus |-> nalus, fault |-> TRUE]
             ELSE stapaLoop(payload, off2 + size,
                            Append(nalus, Slice(payload, off2, off2 + size)))
    ELSE [nalus |-> nalus, fault |-> FALSE]

\* depacketizeSTAPA that starts at offset 0, on the STAP-A header byte.
depacketizeSTAPA_NoHeaderSkip(d, payload) ==
    LET r == stapaLoop(payload, 0, <<>>)
    IN  Ret(d, r.nalus, r.fault)

\* depacketizeSTAPA: offset := 1 skips the STAP-A header byte
depacketizeSTAPA(d, payload) ==
    LET r == stapaLoop(payload, 1, <<>>)
    IN  Ret(d, r.nalus, r.fault)

\* depacketizeFUA after its length guard: the FU header is read and the fragment applied
fuaFragment(d, sequenceNumber, payload) ==
    LET fnri     == Fnri(At(payload, 0))
        fuHeader == At(payload, 1)
        start    == StartBit(fuHeader)
        end      == EndBit(fuHeader)
        naluType == NaluType(fuHeader)
        data     == Slice(payload, 2, Len(payload))
        oob      == \/ ~IndexOK(payload, 0)
                    \/ ~IndexOK(payload, 1)
                    \/ ~SliceOK(payload, 2, Len(payload))
        cleared  == [d EXCEPT !.fuaBuf = <<>>, !.fuaStarted = FALSE]
    IN  IF oob THEN Ret(d, <<>>, TRUE)
        ELSE IF start
        THEN LET buf == <<fnri + naluType>> \o data
                 st  == [fuaBuf |-> buf, fuaStarted |-> TRUE,
                         expectedSeq |-> SeqInc(sequenceNumber)]
             IN  IF end
                 THEN Ret([st EXCEPT !.fuaBuf = <<>>, !.fuaStarted = FALSE], <<buf>>, FALSE)
                 ELSE Ret(st, <<>>, FALSE)
        ELSE IF ~d.fuaStarted
        THEN Ret(d, <<>>, FALSE)
        ELSE IF sequenceNumber # d.expectedSeq
        THEN Ret(cleared, <<>>, FALSE)
        ELSE LET buf == d.fuaBuf \o data
                 st  == [d EXCEPT !.expectedSeq = SeqInc(sequenceNumber), !.fuaBuf = buf]
             IN  IF end
                 THEN Ret([st EXCEPT !.fuaBuf = <<>>, !.fuaStarted = FALSE], <<buf>>, FALSE)
                 ELSE Ret(st, <<>>, FALSE)

\* depacketizeFUA without the len(payload) < 2 guard.
depacketizeFUA_NoLenGuard(d, sequenceNumber, payload) ==
    fuaFragment(d, sequenceNumber, payload)

\* depacketizeFUA that forgets the fragments before the end fragment.
depacketizeFUA_KeepsLastOnly(d, sequenceNumber, payload) ==
    IF Len(payload) < 2 THEN Ret(d, <<>>, FALSE)
    ELSE LET r == fuaFragment(d, sequenceNumber, payload)
         IN  IF r.nalus # <<>> /\ ~StartBit(At(payload, 1))
             THEN Ret(r.d, <<Slice(payload, 2, Len(payload))>>, FALSE)
             ELSE r

\* depacketizeFUA that keeps the buffered bytes when a sequence gap ends the reassembly.
depacketizeFUA_GapKeepsBuffer(d, sequenceNumber, payload) ==
    IF Len(payload) < 2 THEN Ret(d, <<>>, FALSE)
    ELSE LET r == fuaFragment(d, sequenceNumber, payload)
         IN  IF /\ d.fuaStarted /\ ~StartBit(At(payload, 1))
                /\ sequenceNumber # d.expectedSeq
             THEN Ret([r.d EXCEPT !.fuaBuf = d.fuaBuf], <<>>, FALSE)
             ELSE r

\* depacketizeFUA that leaves the reassembly open after a start fragment that is
\* also the end fragment.
depacketizeFUA_SingleLeavesOpen(d, sequenceNumber, payload) ==
    IF Len(payload) < 2 THEN Ret(d, <<>>, FALSE)
    ELSE LET r == fuaFragment(d, sequenceNumber, payload)
         IN  IF r.nalus # <<>> /\ StartBit(At(payload, 1))
             THEN Ret([r.d EXCEPT !.fuaBuf = r.nalus[1], !.fuaStarted = TRUE],
                      r.nalus, FALSE)
             ELSE r

\* depacketizeFUA
depacketizeFUA(d, sequenceNumber, payload) ==
    IF Len(payload) < 2 THEN Ret(d, <<>>, FALSE)
    ELSE fuaFragment(d, sequenceNumber, payload)

\* Depacketize with the single-NAL range one type short (1..22).
Depacketize_Range22(d, sequenceNumber, payload) ==
    IF Len(payload) < 1 THEN Ret(d, <<>>, FALSE)
    ELSE LET naluType == NaluType(At(payload, 0))
         IN  IF naluType >= 1 /\ naluType <= 22 THEN Ret(d, <<payload>>, FALSE)
             ELSE IF naluType = 24 THEN depacketizeSTAPA(d, payload)
             ELSE IF naluType = 28 THEN depacketizeFUA(d, sequenceNumber, payload)
             ELSE Ret(d, <<>>, FALSE)

\* Depacketize
Depacketize(d, sequenceNumber, payload) ==
    IF Len(payload) < 1 THEN Ret(d, <<>>, FALSE)
    ELSE LET naluType == NaluType(At(payload, 0))
         IN  IF naluType >= 1 /\ naluType <= 23 THEN Ret(d, <<payload>>, FALSE)
             ELSE IF naluType = 24 THEN depacketizeSTAPA(d, payload)
             ELSE IF naluType = 28 THEN depacketizeFUA(d, sequenceNumber, payload)
             ELSE Ret(d, <<>>, FALSE)

(***************************************************************************)
(* The depacketizer of src/internal/webrtc/depacketize.go, the one that    *)
(* Peer.readVideoTrack calls. Its object holds fuaBuf alone.               *)
(***************************************************************************)
\* &H264Depacketizer{}
webrtcZeroDepacketizer == [fuaBuf |-> <<>>]

\* NewH264Depacketizer: a fresh object on the heap and its address
webrtcNewH264Depacketizer(h) ==
    [heap |-> Append(h, webrtcZeroDepacketizer), addr |-> Len(h) + 1]

\* depacketizeSTAPA, the for loop: one iteration at `offset` with `nalus` collected so far
RECURSIVE webrtcStapaLoop(_, _, _)
webrtcStapaLoop(payload, offset, nalus) ==
    IF offset + 2 <= Len(payload)
    THEN LET size == At(payload, offset) * 256 + At(payload, offset + 1)
             off2 == offset + 2
         IN  IF ~IndexOK(payload, offset) \/ ~IndexOK(payload, offset + 1)
             THEN [nalus |-> nalus, fault |-> TRUE]
             ELSE IF off2 + size > Len(payload)
             THEN [nalus |-> nalus, fault |-> FALSE]
             ELSE IF ~SliceOK(payload, off2, off2 + size)
             THEN [nalus |-> nalus, fault |-> TRUE]
             ELSE webrtcStapaLoop(payload, off2 + size,
                                  Append(nalus, Slice(payload, off2, off2 + size)))
    ELSE [nalus |-> nalus, fault |-> FALSE]

\* depacketizeSTAPA
webrtcDepacketizeSTAPA(d, payload) ==
    LET r == webrtcStapaLoop(payload, 1, <<>>)
    IN  Ret(d, r.nalus, r.fault)

\* depacketizeFUA
webrtcDepacketizeFUA(d, payload) ==
    IF Len(payload) < 2 THEN Ret(d, <<>>, FALSE)
    ELSE LET fnri     == Fnri(At(payload, 0))
             fuHeader == At(payload, 1)
             start    == StartBit(fuHeader)
             end      == EndBit(fuHeader)
             naluType == NaluType(fuHeader)
             data     == Slice(payload, 2, Len(payload))
             buf      == IF start THEN <<fnri + naluType>> \o data
                                  ELSE d.fuaBuf \o data
         IN  IF end
             THEN Ret([fuaBuf |-> <<>>], <<buf>>, FALSE)
             ELSE Ret([fuaBuf |-> buf], <<>>, FALSE)

\* Peer.readVideoTrack, the loop over nalus: every non-empty unit is written to w
\* after the start code 00 00 00 01
RECURSIVE readVideoTrackWrite(_)
readVideoTrackWrite(nalus) ==
    IF nalus = <<>> THEN <<>>
    ELSE (IF Len(Head(nalus)) = 0 THEN <<>> ELSE <<0, 0, 0, 1>> \o Head(nalus))
         \o readVideoTrackWrite(Tail(nalus))

\* Depacketize
webrtcDepacketize(d, payload) ==
    IF Len(payload) < 1 THEN Ret(d, <<>>, FALSE)
    ELSE LET naluType == NaluType(At(payload, 0))
         IN  IF naluType >= 1 /\ naluType <= 23 THEN Ret(d, <<payload>>, FALSE)
             ELSE IF naluType = 24 THEN webrtcDepacketizeSTAPA(d, payload)
             ELSE IF naluType = 28 THEN webrtcDepacketizeFUA(d, payload)
             ELSE Ret(d, <<>>, FALSE)

(***************************************************************************)
(* Inputs.                                                                 *)
(***************************************************************************)
\* RTP sequence numbers of a stream run: around the uint16 wrap
SeqVals == {(65534 + k) % 65536 : k \in 0..SeqSpan}

\* FU-A fragments (indicator 0x7C: NRI 3, type 28) of a type-5 NAL, and other packets
FuStart  == <<124, 133, 1>>
FuMid    == <<124, 5, 3>>
FuEnd    == <<124, 69, 4>>
FuSingle == <<124, 197, 7>>

StreamPayloads ==
    {FuStart, FuMid, FuEnd, FuSingle,
     <<92, 129, 9>>,     \* FU-A start, NRI 2, type 1
     <<124, 69>>,        \* FU-A end fragment without data
     <<124>>,            \* FU-A indicator alone
     <<101, 1, 2>>,      \* single NAL, type 5
     <<23>>,             \* single NAL, type 23, header byte alone
     <<24, 0, 1, 9>>,    \* STAP-A with one sub-NAL
     <<>>,               \* empty payload
     <<29, 1>>}          \* FU-B, unsupported

\* RTP sequence numbers and packets of a two-instance run
PairSeqVals == {(65535 + k) % 65536 : k \in 0..PairSpan}
PairPayloads == {FuStart, FuMid, FuEnd}

\* all byte sequences over `bytes` of length 0..n
SeqsUpTo(bytes, n) == UNION {[1..k -> bytes] : k \in 0..n}

(***************************************************************************)
(* History: what the inputs of one handle amount to.                       *)
(***************************************************************************)
\* the payload is an FU-A fragment: type 28 with an FU header
IsFragment(p) == Len(p) >= 2 /\ p[1] % 32 = 28
IsStartFragment(p) == IsFragment(p) /\ (p[2] \div 128) % 2 = 1
IsEndFragment(p) == IsFragment(p) /\ (p[2] \div 64) % 2 = 1
FragmentData(p) == SubSeq(p, 3, Len(p))
FragmentHeader(p) == ((p[1] \div 32) * 32) + (p[2] % 32)

\* the RTP sequence number that follows seq: 65535 is followed by 0
Following(seq) == IF seq = 65535 THEN 0 ELSE seq + 1

\* no run in progress, no fragment seen
NoRun == [active |-> FALSE, next |-> 0, bytes |-> <<>>, dropped |-> FALSE, orphans |-> FALSE]

\* the run after the packet (seq, p):
\*   active   a start fragment arrived and every fragment since was the next in sequence
\*   next     the sequence number that continues the run
\*   bytes    header byte and data of the run's fragments, in arrival order
\*   dropped  the last run was cut by a sequence gap and no start fragment arrived since
\*   orphans  a non-start fragment arrived while no run was active
RunAfter(r, seq, p) ==
    IF ~IsFragment(p) THEN r
    ELSE IF IsStartFragment(p)
    THEN [r EXCEPT !.active = ~IsEndFragment(p),
                   !.next = Following(seq),
                   !.bytes = IF IsEndFragment(p) THEN <<>>
                             ELSE <<FragmentHeader(p)>> \o FragmentData(p),
                   !.dropped = FALSE]
    ELSE IF ~r.active THEN [r EXCEPT !.orphans = TRUE]
    ELSE IF seq # r.next THEN [r EXCEPT !.active = FALSE, !.bytes = <<>>, !.dropped = TRUE]
    ELSE IF IsEndFragment(p) THEN [r EXCEPT !.active = FALSE, !.bytes = <<>>, !.next = Following(seq)]
    ELSE [r EXCEPT !.bytes = r.bytes \o FragmentData(p), !.next = Following(seq)]

\* the STAP-A body of the sub-NALs `units`: each with its 2-byte big-endian size
RECURSIVE EncodeUnits(_)
EncodeUnits(units) ==
    IF units = <<>> THEN <<>>
    ELSE <<Len(Head(units)) \div 256, Len(Head(units)) % 256>> \o Head(units)
         \o EncodeUnits(Tail(units))

\* what a parse run assembled its payload from: `units` encoded, then `rest`
NoSource == [built |-> FALSE, units |-> <<>>, rest |-> <<>>]

\* the inputs of a call as `last` records them
Inputs(seq, payload, source) == [seq |-> seq, payload |-> payload, source |-> source]
NoInputs == Inputs(0, <<>>, NoSource)

\* before the first call
NoCall == [i |-> 0, in |-> NoInputs, nalus |-> <<>>, wnalus |-> <<>>, written |-> <<>>,
           fault |-> FALSE, wfault |-> FALSE, pre |-> NoRun,
           soloNalus |-> <<>>, wsoloNalus |-> <<>>]

\* the packets a parse run draws: any header byte with a short body, STAP-A bodies,
\* and STAP-A payloads assembled from non-empty sub-NALs followed by `rest`
Units == SeqsUpTo(0..3, 3) \ {<<>>}

\* the sequence numbers of a parse run: the one after 99, and one far from it
ParseSeqVals == {100, 65535}

\* what follows the sub-NALs of an assembled STAP-A payload: nothing, a zero size (alone
\* and before a further sub-NAL), a size of 3 before 1 byte, a size of 1 and of 256
\* before no byte, and a single byte
StapaRests ==
    {<<>>, <<0, 0>>, <<0, 0, 0, 1, 2>>, <<0, 3, 1>>, <<0, 1>>, <<1, 0>>, <<9>>}
\* the rest opens with a zero size
ZeroSizeRest(rest) == Len(rest) >= 2 /\ rest[1] = 0 /\ rest[2] = 0
\* the rest is a single byte, or opens with a size larger than what follows it
TruncatedRest(rest) ==
    \/ Len(rest) = 1
    \/ Len(rest) >= 2 /\ rest[1] * 256 + rest[2] > Len(rest) - 2

ParseInputs ==
    {Inputs(seq, <<>>, NoSource) : seq \in ParseSeqVals}
    \cup {Inputs(seq, <<h>> \o t, NoSource) :
            seq \in ParseSeqVals, h \in 0..255, t \in SeqsUpTo({0, 1, 133}, ShortTail)}
    \cup {Inputs(100, <<h>> \o t, NoSource) :
            h \in {24, 120}, t \in SeqsUpTo(0..2, MaxTail)}
    \cup {Inputs(100, <<h>> \o EncodeUnits(x[1]) \o x[2],
                 [built |-> TRUE, units |-> x[1], rest |-> x[2]]) :
            h \in {24, 120},
            x \in {y \in SeqsUpTo(Units, 2) \X StapaRests :
                     Len(EncodeUnits(y[1])) + Len(y[2]) <= MaxTail}}

(***************************************************************************)
(* Operations on depacketizer instances.                                   *)
(***************************************************************************)
\* d1 := NewH264Depacketizer(); d2 := NewH264Depacketizer(); ... (n instances)
RECURSIVE Construct(_)
Construct(n) ==
    IF n = 0 THEN [inst |-> <<>>, heap |-> <<>>, wheap |-> <<>>]
    ELSE LET c == Construct(n - 1)
             a == NewH264Depacketizer(c.heap)
             w == webrtcNewH264Depacketizer(c.wheap)
         IN  [inst |-> Append(c.inst, a.addr), heap |-> a.heap, wheap |-> w.heap]

\* message.Code is a *int: absent (nil), or present with a value
NoCode == [present |-> FALSE, value |-> 0]
\* message.MessagePayload: whether the text is base64, whether the decoded bytes are the
\* JSON of a payload object, and the type and text that object carries
NoPayload == [b64 |-> TRUE, json |-> TRUE, type |-> "", text |-> ""]
\* one inbound WebSocket text frame: the fields of `message` dispatch looks at
\* (json: the frame is the JSON of an object)
NoFrame == [method |-> "", code |-> NoCode, messageType |-> "", json |-> TRUE,
            payload |-> NoPayload]
\* the read loop has taken no frame yet
\* (after: the frame before this one was one dispatch has no handler call for)
NoEvent == [frame |-> NoFrame, handler |-> "", ops |-> <<>>,
            out |-> <<>>,
            writes |-> <<>>, gate |-> <<FALSE, FALSE>>, cancelled |-> <<FALSE, FALSE>>,
            after |-> FALSE]
\* signal.NewClient: closed is an open channel, conn is nil, mu is free
NewClient == [closed |-> FALSE, conn |-> "nil", mu |-> "none", raised |-> 0,
              connCloses |-> 0, faults |-> 0]
\* main before viewer.New: a context that is not cancelled, nothing wired, nothing consumed
NewSession == [signalerSet |-> FALSE, cancelled |-> FALSE, fired |-> 0, step |-> 0,
               log |-> <<>>, peerCloses |-> 0, exited |-> FALSE, fatal |-> FALSE,
               offered |-> FALSE, auths |-> 0, frames |-> 0, pings |-> 0, locals |-> 0,
               readErr |-> FALSE, pingFailedOpen |-> FALSE, absorbed |-> FALSE]
\* no goroutine of a session exists
NoProcs == [read |-> "off", ping |-> "off", ice |-> "off", main |-> "off", sig |-> "off"]

\* Peer.SetOnTrack before the engine delivered a track: no reader goroutine, no call
\* (callers: history, per address, the goroutines that called the object there)
NoReaders == [tasks |-> <<>>, callers |-> <<>>, packets |-> 0]

\* no signaling runs beside a depacketizer run or a gate run, and no track is read
SignalIdle ==
    /\ readers = NoReaders
    /\ sc = NewClient
    /\ procs = NoProcs
    /\ sess = NewSession
    /\ ev = NoEvent

\* no session runs beside a depacketizer run
SessionIdle ==
    /\ peer = [remoteDescSet |-> FALSE, remote |-> <<>>, candidates |-> <<>>]
    /\ tasks = <<>>
    /\ crashed = FALSE
    /\ calls = [answers |-> <<>>, candidates |-> <<>>]
    /\ SignalIdle

InitInstances(n) ==
    /\ SessionIdle
    /\ inst = Construct(n).inst
    /\ heap = Construct(n).heap
    /\ wheap = Construct(n).wheap
    /\ last = NoCall
    /\ run = [i \in 1..n |-> NoRun]
    /\ solo = [i \in 1..n |-> ZeroDepacketizer]
    /\ wsolo = [i \in 1..n |-> webrtcZeroDepacketizer]

\* nalus := d_i.Depacketize(seq, payload), on both variants, while no buffer exceeds
\* `maxbuf`, and what readVideoTrack writes for the units of the variant it calls;
\* `shown` is what `last` records of the inputs
Call(i, seq, payload, shown, maxbuf) ==
    LET a  == inst[i]
        r  == Depacketize(heap[a], seq, payload)
        w  == webrtcDepacketize(wheap[a], payload)
        s  == Depacketize(solo[i], seq, payload)
        ws == webrtcDepacketize(wsolo[i], payload)
    IN  /\ Len(r.d.fuaBuf) <= maxbuf
        /\ Len(w.d.fuaBuf) <= maxbuf
        /\ heap' = [heap EXCEPT ![a] = r.d]
        /\ wheap' = [wheap EXCEPT ![a] = w.d]
        /\ solo' = [solo EXCEPT ![i] = s.d]
        /\ wsolo' = [wsolo EXCEPT ![i] = ws.d]
        /\ run' = [run EXCEPT ![i] = RunAfter(run[i], seq, payload)]
        /\ last' = [i |-> i, in |-> shown,
                    nalus |-> r.nalus, wnalus |-> w.nalus,
                    written |-> readVideoTrackWrite(w.nalus),
                    fault |-> r.fault, wfault |-> w.fault, pre |-> run[i],
                    soloNalus |-> s.nalus, wsoloNalus |-> ws.nalus]
        /\ UNCHANGED inst

\* one packet of the stream of the single instance
StreamPacket ==
    /\ \E seq \in SeqVals, payload \in StreamPayloads :
          Call(1, seq, payload, Inputs(seq, payload, NoSource), MaxBuf)
    /\ UNCHANGED <<pending, readers, svars>>

\* one packet to one of the two instances d1, d2
PairPacket ==
    /\ \E i \in {1, 2}, seq \in PairSeqVals, payload \in PairPayloads :
          Call(i, seq, payload, NoInputs, PairBuf)
    /\ UNCHANGED <<pending, readers, svars>>

\* the instance parses the arbitrary payload drawn for it
ParsePayload ==
    /\ pending # NoInputs
    /\ ~pending.source.built
    /\ Call(1, pending.seq, pending.payload, pending, MaxTail)
    /\ pending' = NoInputs
    /\ UNCHANGED <<readers, svars>>

\* the instance parses the STAP-A payload assembled for it
ParseUnits ==
    /\ pending # NoInputs
    /\ pending.source.built
    /\ Call(1, pending.seq, pending.payload, pending, MaxTail)
    /\ pending' = NoInputs
    /\ UNCHANGED <<readers, svars>>

InitStream == InitInstances(1) /\ pending = NoInputs
NextStream == StreamPacket
SpecStream == InitStream /\ [][NextStream]_vars

InitPair == InitInstances(2) /\ pending = NoInputs
NextPair == PairPacket
SpecPair == InitPair /\ [][NextPair]_vars

\* the instance of a parse run: fresh, or one that received the start fragment
\* FuStart with sequence number 99
InitParse ==
    /\ pending \in ParseInputs
    /\ \/ InitInstances(1)
       \/ LET c == Construct(1)
              r == Depacketize(c.heap[1], 99, FuStart)
              w == webrtcDepacketize(c.wheap[1], FuStart)
          IN  /\ inst = c.inst
              /\ heap = [c.heap EXCEPT ![1] = r.d]
              /\ wheap = [c.wheap EXCEPT ![1] = w.d]
              /\ last = NoCall
              /\ run = <<RunAfter(NoRun, 99, FuStart)>>
              /\ solo = <<r.d>>
              /\ wsolo = <<w.d>>
              /\ SessionIdle
NextParse == ParsePayload \/ ParseUnits
SpecParse == InitParse /\ [][NextParse]_vars

(***************************************************************************)
(* The track readers of Peer.SetOnTrack: the engine calls the OnTrack      *)
(* callback once per remote track, and the callback starts one goroutine   *)
(* per call.                                                               *)
(***************************************************************************)
\* a readVideoTrack that takes the one depacketizer kept on the Peer.
ReaderDepacketizer_OnPeer(h) ==
    IF Len(h) = 0
    THEN [heap |-> <<ZeroDepacketizer>>, addr |-> 1]
    ELSE [heap |-> h, addr |-> 1]

\* readVideoTrack 163: depack := NewH264Depacketizer(), a local of the goroutine
ReaderDepacketizer(h) == NewH264Depacketizer(h)

\* the OnTrack callback: go p.readVideoTrack(track, videoOut) for a video track, a
\* goroutine that drains the track for any other kind
OnTrack ==
    /\ Len(readers.tasks) < MaxTracks
    /\ \E kind \in {"video", "audio"} :
          readers' = [readers EXCEPT !.tasks =
                         Append(@, [kind |-> kind,
                                    pc |-> IF kind = "video" THEN "start" ELSE "drain",
                                    handle |-> 0])]
    /\ UNCHANGED <<inst, heap, wheap, last, run, solo, wsolo, pending, svars>>

\* readVideoTrack 160-163: the goroutine makes its depacketizer
ReaderStart ==
    /\ \E k \in DOMAIN readers.tasks :
          /\ readers.tasks[k].pc = "start"
          /\ LET a == ReaderDepacketizer(heap)
                 w == webrtcNewH264Depacketizer(wheap)
             IN  /\ inst' = Append(inst, a.addr)
                 /\ heap' = a.heap
                 /\ wheap' = w.heap
                 /\ readers' = [readers EXCEPT
                                   !.tasks[k].pc = "read",
                                   !.tasks[k].handle = Len(inst) + 1,
                                   !.callers = IF Len(a.heap) > Len(heap)
                                               THEN Append(@, {}) ELSE @]
    /\ run' = Append(run, NoRun)
    /\ solo' = Append(solo, ZeroDepacketizer)
    /\ wsolo' = Append(wsolo, webrtcZeroDepacketizer)
    /\ UNCHANGED <<last, pending, svars>>

\* readVideoTrack 165-180: ReadRTP returns a packet; depack.Depacketize, and the
\* units are written
ReaderPacket ==
    /\ readers.packets < MaxTrackPackets
    /\ \E k \in DOMAIN readers.tasks, seq \in PairSeqVals, payload \in PairPayloads :
          /\ readers.tasks[k].pc = "read"
          /\ Call(readers.tasks[k].handle, seq, payload, NoInputs, PairBuf)
          /\ readers' = [readers EXCEPT
                            !.callers[inst[readers.tasks[k].handle]] = @ \cup {k},
                            !.packets = @ + 1]
    /\ UNCHANGED <<pending, svars>>

\* readVideoTrack 166-170, and the drain loop of SetOnTrack 146-154: the read of the
\* track fails and the goroutine returns
ReaderError ==
    /\ \E k \in DOMAIN readers.tasks :
          /\ readers.tasks[k].pc \in {"read", "drain"}
          /\ readers' = [readers EXCEPT !.tasks[k].pc = "done"]
    /\ UNCHANGED <<inst, heap, wheap, last, run, solo, wsolo, pending, svars>>

\* Peer.SetOnTrack has registered the callback; no track has arrived
InitTracks ==
    /\ inst = <<>> /\ heap = <<>> /\ wheap = <<>>
    /\ last = NoCall /\ run = <<>> /\ solo = <<>> /\ wsolo = <<>>
    /\ pending = NoInputs
    /\ SessionIdle
NextTracks == OnTrack \/ ReaderStart \/ ReaderPacket \/ ReaderError
SpecTracks == InitTracks /\ [][NextTracks]_vars

(***************************************************************************)
(* The peer session (src/internal/webrtc/peer.go) and the coordinator      *)
(* (src/internal/viewer/viewer.go). The WebRTC engine is external: whether *)
(* it accepts a description or a candidate is a free choice of each call.  *)
(***************************************************************************)
\* the payloads of the SDP_ANSWER and ICE_CANDIDATE frames of a session run
Sdps == {"answerA", "answerB"}
Candidates == {"candA", "candB"}

\* NewPeer: remoteDescSet is an open channel; the engine holds no remote description
\* and no remote candidate
NewPeer == [remoteDescSet |-> FALSE, remote |-> <<>>, candidates |-> <<>>]

\* Peer.SetRemoteDescription that leaves p.remoteDescSet open after a success.
SetRemoteDescription_GateLeftOpen(p, sdp, engineOk) ==
    IF ~engineOk THEN [peer |-> p, result |-> "error"]
    ELSE [peer |-> [p EXCEPT !.remote = Append(@, sdp)], result |-> "ok"]

\* Peer.SetRemoteDescription: the engine applies the answer or returns an error; after
\* success close(p.remoteDescSet), which panics on a channel that is closed already
SetRemoteDescription(p, sdp, engineOk) ==
    IF ~engineOk THEN [peer |-> p, result |-> "error"]
    ELSE LET q == [p EXCEPT !.remote = Append(@, sdp)]
         IN  IF q.remoteDescSet
             THEN [peer |-> q, result |-> "panic"]
             ELSE [peer |-> [q EXCEPT !.remoteDescSet = TRUE], result |-> "ok"]

\* Peer.AddRemoteICECandidate that does not wait for the remote description.
RemoteDescReady_NoWait(p) == TRUE

\* Peer.AddRemoteICECandidate, <-p.remoteDescSet: the receive returns once the channel
\* is closed
RemoteDescReady(p) == p.remoteDescSet

\* Peer.AddRemoteICECandidate, p.pc.AddICECandidate(init): the engine rejects a candidate
\* while it has no remote description, and else accepts or rejects it
AddICECandidate(p, candidate, engineOk) ==
    IF p.remote = <<>> \/ ~engineOk
    THEN [peer |-> p, err |-> TRUE]
    ELSE [peer |-> [p EXCEPT !.candidates = Append(@, candidate)], err |-> FALSE]

\* Viewer.OnSDPAnswer: one SetRemoteDescription call; an error is logged
OnSDPAnswer ==
    /\ ~crashed
    /\ Len(calls.answers) < MaxAnswers
    /\ \E sdp \in Sdps, engineOk \in BOOLEAN :
          LET r == SetRemoteDescription(peer, sdp, engineOk)
          IN  /\ peer' = r.peer
              /\ crashed' = (r.result = "panic")
              /\ calls' = [calls EXCEPT !.answers =
                              Append(@, [sdp |-> sdp, engineOk |-> engineOk,
                                         result |-> r.result])]
    /\ UNCHANGED <<tasks, dvars, gvars>>

\* Viewer.OnRemoteICECandidate: go func() { v.peer.AddRemoteICECandidate(candidate) }()
OnRemoteICECandidate ==
    /\ ~crashed
    /\ Len(calls.candidates) < MaxCandidates
    /\ \E candidate \in Candidates :
          /\ tasks' = Append(tasks, [candidate |-> candidate, pc |-> "wait",
                                     early |-> ~peer.remoteDescSet, err |-> FALSE])
          /\ calls' = [calls EXCEPT !.candidates = Append(@, candidate)]
    /\ UNCHANGED <<peer, crashed, dvars, gvars>>

\* a candidate goroutine gets past <-p.remoteDescSet
AwaitRemoteDesc ==
    /\ ~crashed /\ ~sess.exited
    /\ \E t \in DOMAIN tasks :
          /\ tasks[t].pc = "wait"
          /\ RemoteDescReady(peer)
          /\ tasks' = [tasks EXCEPT ![t].pc = "add"]
    /\ UNCHANGED <<peer, crashed, calls, dvars, gvars>>

\* a candidate goroutine hands its candidate to the engine and returns
ApplyCandidate ==
    /\ ~crashed /\ ~sess.exited
    /\ \E t \in DOMAIN tasks, engineOk \in BOOLEAN :
          /\ tasks[t].pc = "add"
          /\ LET r == AddICECandidate(peer, tasks[t].candidate, engineOk)
             IN  /\ peer' = r.peer
                 /\ tasks' = [tasks EXCEPT ![t].pc = "done", ![t].err = r.err]
    /\ UNCHANGED <<crashed, calls, dvars, gvars>>

\* no depacketizer runs beside a session run
DepackIdle ==
    /\ inst = <<>> /\ heap = <<>> /\ wheap = <<>>
    /\ last = NoCall /\ run = <<>> /\ solo = <<>> /\ wsolo = <<>>
    /\ pending = NoInputs

Init ==
    /\ DepackIdle
    /\ peer = NewPeer
    /\ tasks = <<>>
    /\ crashed = FALSE
    /\ calls = [answers |-> <<>>, candidates |-> <<>>]
    /\ SignalIdle

Next == OnSDPAnswer \/ OnRemoteICECandidate \/ AwaitRemoteDesc \/ ApplyCandidate

Spec == Init /\ [][Next]_vars

(***************************************************************************)
(* The whole session: main (src/cmd/vicostream/main.go), the signaling     *)
(* client (package signal) and the coordinator                             *)
(* (src/internal/viewer/viewer.go). The signaling server, the operating    *)
(* system and the WebRTC engine are external: what they deliver and        *)
(* whether their calls succeed is a free choice.                           *)
(***************************************************************************)
\* inbound frames a session run reads
MaxFrames == 2
\* ticks of the keepalive ticker of a session run
MaxPings == 1
\* local ICE candidates the engine reports in a session run
MaxLocal == 1

\* the SDP texts CreateOffer returns in a session run
Offers == {"offerA", "offerB"}

Code(v) == [present |-> TRUE, value |-> v]

\* base64.StdEncoding.EncodeToString(json.Marshal(payload)) of part_001, lines 144-146
\* and 164-170
Encoded(type, text) == [b64 |-> TRUE, json |-> TRUE, type |-> type, text |-> text]
\* a MessagePayload that is not base64, and one that is base64 of something else than
\* the JSON of a payload object
NotBase64 == [b64 |-> FALSE, json |-> FALSE, type |-> "", text |-> ""]
NotJson == [b64 |-> TRUE, json |-> FALSE, type |-> "", text |-> ""]

Frame(method, code, messageType, payload) ==
    [method |-> method, code |-> code, messageType |-> messageType, json |-> TRUE,
     payload |-> payload]

\* the frames the signaling server may deliver; the last one is not JSON at all
SessionFrames ==
    {Frame("AUTH_RESPONSE", c, "", NoPayload) : c \in {NoCode, Code(0), Code(1)}}
    \cup {Frame(m, NoCode, "", NoPayload) :
            m \in {"JOIN_LIVE_RESPONSE", "PEER_IN", "PEER_OUT", "TRANSMIT_RESPONSE",
                   "RESPONSE", "BYE"}}
    \cup {Frame("TRANSMIT", NoCode, "SDP_ANSWER", p) :
            p \in {Encoded("answer", s) : s \in Sdps} \cup {NotBase64, NotJson}}
    \cup {Frame("TRANSMIT", NoCode, "ICE_CANDIDATE", p) :
            p \in {Encoded("", c) : c \in Candidates} \cup {NotBase64, NotJson}}
    \cup {Frame("TRANSMIT", NoCode, "STATS", NoPayload)}
    \cup {[NoFrame EXCEPT !.json = FALSE]}

\* the frame is one that dispatch has no handler call for: not the JSON of an object,
\* a method without a handler (JOIN_LIVE_RESPONSE, TRANSMIT_RESPONSE, RESPONSE, any
\* unknown one), a TRANSMIT of an unknown message type, or an SDP_ANSWER or
\* ICE_CANDIDATE whose payload is not base64 of the JSON of a payload object
Ignorable(f) ==
    \/ ~f.json
    \/ f.method \notin {"AUTH_RESPONSE", "PEER_IN", "PEER_OUT", "TRANSMIT"}
    \/ f.method = "TRANSMIT" /\ f.messageType \notin {"SDP_ANSWER", "ICE_CANDIDATE"}
    \/ f.method = "TRANSMIT" /\ (~f.payload.b64 \/ ~f.payload.json)
\* the read loop holds a frame it took from the socket
HoldsFrame == ev.frame # NoFrame

\* the decoding of dispatch without its two error returns.
DecodePayload_ErrorsUnchecked(p) == [err |-> FALSE, text |-> p.text]

\* base64.StdEncoding.DecodeString, then json.Unmarshal into the payload struct
DecodePayload(p) ==
    [err |-> ~p.b64 \/ ~p.json, text |-> IF p.b64 /\ p.json THEN p.text ELSE ""]

\* the messages the handlers hand to sendJSON
Out(method, messageType, payload) ==
    [method |-> method, messageType |-> messageType, payload |-> payload]
JoinLiveMessage == Out("JOIN_LIVE", "", NoPayload)
SDPOfferMessage(sdp) == Out("TRANSMIT", "SDP_OFFER", Encoded("offer", sdp))

\* one call a handler made on the signaler, the peer or the context
Op(op, arg, result) == [op |-> op, arg |-> arg, result |-> result]

\* what `ev` records of frame f: the handler dispatch called, the calls the handler
\* made, the messages it still has to write and has written, and the gate and the
\* context before and after it
Event(f, handler, ops, out, gate, cancelled) ==
    [frame |-> f, handler |-> handler, ops |-> ops, out |-> out, writes |-> <<>>,
     gate |-> gate, cancelled |-> cancelled, after |-> FALSE]

\* Client.SendJoinLive and Client.SendSDPOffer: the message each hands to sendJSON
OutOf(o) ==
    IF o.op = "SendJoinLive" THEN <<JoinLiveMessage>>
    ELSE IF o.op = "SendSDPOffer" THEN <<SDPOfferMessage(o.arg)>>
    ELSE <<>>

\* the messages the calls of a handler hand to sendJSON, in call order
RECURSIVE Sends(_)
Sends(ops) == IF ops = <<>> THEN <<>> ELSE OutOf(Head(ops)) \o Sends(Tail(ops))

\* context.CancelFunc: the first call closes ctx.Done(), later calls do nothing
cancel(s) == IF s.cancelled THEN s ELSE [s EXCEPT !.cancelled = TRUE, !.fired = @ + 1]

\* Viewer.OnPeerOut that does not cancel the context.
OnPeerOut_NoCancel(s) == s

\* Viewer.OnPeerOut: v.cancel()
OnPeerOut(s) == cancel(s)

\* dispatch that reads a missing code as Go's zero value.
AuthOk_ZeroValue(msg) == msg.code.value = 0

\* dispatch, case "AUTH_RESPONSE": msg.Code != nil && *msg.Code == 0
AuthOk(msg) == msg.code.present /\ msg.code.value = 0

\* c.mu.Lock() of a pingLoop that writes without waiting for the lock.
CanLock_PingUnlocked(c, g) == g = "ping" \/ c.mu = "none"

\* c.mu.Lock() returns to goroutine g once no goroutine holds mu
CanLock(c, g) == c.mu = "none"

\* Viewer.OnPeerIn that sends a fixed SDP text.
OnPeerInOps_Fixed(sdp) == <<Op("CreateOffer", "", sdp), Op("SendSDPOffer", "offerA", "")>>

\* Viewer.OnPeerIn after sdp, err := v.peer.CreateOffer() with a nil err:
\* v.signal.SendSDPOffer(sdp)
OnPeerInOps(sdp) == <<Op("CreateOffer", "", sdp), Op("SendSDPOffer", sdp, "")>>

\* Viewer.OnSDPAnswer that cancels the session when the call fails.
OnSDPAnswerError_Cancels(s) == [cancel(s) EXCEPT !.absorbed = TRUE]

\* Viewer.OnSDPAnswer, err != nil: log.Printf, nothing else
OnSDPAnswerError(s) == [s EXCEPT !.absorbed = TRUE]

\* Viewer.OnAuthSuccess that joins twice.
OnAuthSuccessOps_Twice == <<Op("SendJoinLive", "", ""), Op("SendJoinLive", "", "")>>

\* Viewer.OnAuthSuccess: v.signal.SendJoinLive()
OnAuthSuccessOps == <<Op("SendJoinLive", "", "")>>

\* main that closes the socket before the peer connection.
Teardown_SocketFirst == <<"socket", "peer">>

\* main, after <-ctx.Done(): peer.Close(), then sc.Close()
Teardown == <<"peer", "socket">>

\* the process runs: no Go panic, no os.Exit, main has not returned
Running == ~crashed /\ ~sess.exited

\* log.Fatalf: os.Exit(1)
Fatal(s) == [s EXCEPT !.exited = TRUE, !.fatal = TRUE]

\* main that never hands the client to the coordinator.
SetSignaler_Skipped(s) == s

\* Viewer.SetSignaler: v.signal = s
SetSignaler(s) == [s EXCEPT !.signalerSet = TRUE]

\* main.go 86-101: viewer.New, NewClient, v.SetSignaler(sc), SetOnTrack, SetOnICECandidate
MainWire ==
    /\ Running
    /\ procs.main = "wire"
    /\ sess' = SetSignaler(sess)
    /\ procs' = [procs EXCEPT !.main = "connect"]
    /\ UNCHANGED <<sc, ev, peer, tasks, crashed, calls, dvars>>

\* Client.Connect without its sendAuth call.
sendAuth_Skipped(s) == s

\* Client.sendAuth: the AUTH message goes to sendJSON
sendAuth(s) == [s EXCEPT !.auths = @ + 1]

\* main.go 104-106 and Client.Connect: dial; on success c.sendAuth() under mu, then
\* go c.readLoop(), go c.pingLoop(); a failed dial is fatal
MainConnect ==
    /\ Running
    /\ procs.main = "connect"
    /\ \E dialOk \in BOOLEAN :
          IF dialOk
          THEN /\ CanLock(sc, "main")
               /\ sc' = [sc EXCEPT !.conn = "open"]
               /\ sess' = sendAuth(sess)
               /\ procs' = [procs EXCEPT !.main = "wait", !.read = "top", !.ping = "wait"]
          ELSE /\ sess' = Fatal(sess)
               /\ UNCHANGED <<sc, procs>>
    /\ UNCHANGED <<ev, peer, tasks, crashed, calls, dvars>>

\* main.go 60-64: SIGINT or SIGTERM arrives; cancel()
Signal ==
    /\ Running
    /\ procs.sig = "wait"
    /\ sess' = cancel(sess)
    /\ procs' = [procs EXCEPT !.sig = "done"]
    /\ UNCHANGED <<sc, ev, peer, tasks, crashed, calls, dvars>>

\* readLoop 186-191: the next iteration (the previous frame is gone); select on
\* c.closed; a return runs the deferred c.Close()
ReadClosedCheck ==
    /\ Running
    /\ procs.read = "top"
    /\ procs' = [procs EXCEPT !.read = IF sc.closed THEN "closeSel" ELSE "read"]
    /\ ev' = [NoEvent EXCEPT !.after = HoldsFrame /\ Ignorable(ev.frame)]
    /\ UNCHANGED <<sc, sess, peer, tasks, crashed, calls, dvars>>

\* readLoop 193-202: ReadMessage fails on the open socket (the network or the server
\* ends the connection); the loop returns, and the error is a read error unless
\* c.closed is closed
ReadError ==
    /\ Running
    /\ procs.read = "read"
    /\ sc.conn = "open"
    /\ sess' = [sess EXCEPT !.readErr = @ \/ ~sc.closed]
    /\ procs' = [procs EXCEPT !.read = "closeSel"]
    /\ UNCHANGED <<sc, ev, peer, tasks, crashed, calls, dvars>>

\* readLoop 193-202: ReadMessage on a socket that c.conn.Close() has closed returns an
\* error, to a receive that was blocked as to a later one; the loop returns
ReadClosedSocket ==
    /\ Running
    /\ procs.read = "read"
    /\ sc.conn = "closed"
    /\ sess' = [sess EXCEPT !.readErr = @ \/ ~sc.closed]
    /\ procs' = [procs EXCEPT !.read = "closeSel"]
    /\ UNCHANGED <<sc, ev, peer, tasks, crashed, calls, dvars>>

\* readLoop 193, 204-212: ReadMessage returns a frame; one that is not JSON is logged
\* and the loop continues, any other goes to dispatch
ReadFrame ==
    /\ Running
    /\ procs.read = "read"
    /\ sc.conn = "open"
    /\ sess.frames < MaxFrames
    /\ \E f \in SessionFrames :
          /\ ev' = [Event(f, "", <<>>, <<>>,
                          <<peer.remoteDescSet, peer.remoteDescSet>>,
                          <<sess.cancelled, sess.cancelled>>)
                       EXCEPT !.after = ev.after]
          /\ procs' = [procs EXCEPT !.read = IF f.json THEN "dispatch" ELSE "top"]
    /\ sess' = [sess EXCEPT !.frames = @ + 1]
    /\ UNCHANGED <<sc, peer, tasks, crashed, calls, dvars>>

\* dispatch, case "AUTH_RESPONSE"; Viewer.OnAuthSuccess calls v.signal.SendJoinLive(),
\* a nil-interface call while no signaler is set
DispatchAuthResponse ==
    /\ Running
    /\ procs.read = "dispatch"
    /\ ev.frame.method = "AUTH_RESPONSE"
    /\ IF ~AuthOk(ev.frame)
       THEN /\ procs' = [procs EXCEPT !.read = "top"]
            /\ UNCHANGED <<ev, crashed>>
       ELSE IF ~sess.signalerSet
       THEN /\ crashed' = TRUE
            /\ ev' = [ev EXCEPT !.handler = "OnAuthSuccess"]
            /\ UNCHANGED procs
       ELSE /\ ev' = [ev EXCEPT !.handler = "OnAuthSuccess", !.ops = OnAuthSuccessOps,
                                !.out = Sends(OnAuthSuccessOps)]
            /\ procs' = [procs EXCEPT !.read = "lock"]
            /\ UNCHANGED crashed
    /\ UNCHANGED <<sc, sess, peer, tasks, calls, dvars>>

\* dispatch, case "PEER_IN"; Viewer.OnPeerIn: CreateOffer, then SendSDPOffer(sdp), or
\* log.Fatalf when the engine fails to make the offer; v.signal.SendSDPOffer is a
\* nil-interface call while no signaler is set
DispatchPeerIn ==
    /\ Running
    /\ procs.read = "dispatch"
    /\ ev.frame.method = "PEER_IN"
    /\ \E offerOk \in BOOLEAN, sdp \in Offers :
          IF ~offerOk
          THEN /\ ev' = [ev EXCEPT !.handler = "OnPeerIn",
                                   !.ops = <<Op("CreateOffer", "", "error")>>]
               /\ sess' = Fatal(sess)
               /\ UNCHANGED <<procs, crashed>>
          ELSE IF ~sess.signalerSet
          THEN /\ crashed' = TRUE
               /\ ev' = [ev EXCEPT !.handler = "OnPeerIn",
                                   !.ops = <<Op("CreateOffer", "", sdp)>>]
               /\ UNCHANGED <<procs, sess>>
          ELSE /\ ev' = [ev EXCEPT !.handler = "OnPeerIn", !.ops = OnPeerInOps(sdp),
                                   !.out = Sends(OnPeerInOps(sdp))]
               /\ sess' = [sess EXCEPT !.offered = TRUE]
               /\ procs' = [procs EXCEPT !.read = "lock"]
               /\ UNCHANGED crashed
    /\ UNCHANGED <<sc, peer, tasks, calls, dvars>>

\* dispatch, case "PEER_OUT"; Viewer.OnPeerOut
DispatchPeerOut ==
    /\ Running
    /\ procs.read = "dispatch"
    /\ ev.frame.method = "PEER_OUT"
    /\ sess' = OnPeerOut(sess)
    /\ ev' = [ev EXCEPT !.handler = "OnPeerOut", !.ops = <<Op("cancel", "", "")>>,
                        !.cancelled = <<sess.cancelled, sess'.cancelled>>]
    /\ procs' = [procs EXCEPT !.read = "top"]
    /\ UNCHANGED <<sc, peer, tasks, crashed, calls, dvars>>

\* dispatch, case "TRANSMIT" / "SDP_ANSWER": decode, then Viewer.OnSDPAnswer, which
\* logs an error of Peer.SetRemoteDescription
DispatchSdpAnswer ==
    /\ Running
    /\ procs.read = "dispatch"
    /\ ev.frame.method = "TRANSMIT" /\ ev.frame.messageType = "SDP_ANSWER"
    /\ LET sdp == DecodePayload(ev.frame.payload)
       IN  IF sdp.err
           THEN /\ UNCHANGED <<ev, peer, crashed, sess>>
           ELSE \E engineOk \in BOOLEAN :
                   LET r == SetRemoteDescription(peer, sdp.text, engineOk)
                   IN  /\ peer' = r.peer
                       /\ crashed' = (r.result = "panic")
                       /\ sess' = IF r.result = "error" THEN OnSDPAnswerError(sess)
                                  ELSE sess
                       /\ ev' = [ev EXCEPT
                                    !.handler = "OnSDPAnswer",
                                    !.ops = <<Op("SetRemoteDescription", sdp.text,
                                                 r.result)>>,
                                    !.gate = <<peer.remoteDescSet, r.peer.remoteDescSet>>,
                                    !.cancelled = <<sess.cancelled, sess'.cancelled>>]
    /\ procs' = [procs EXCEPT !.read = "top"]
    /\ UNCHANGED <<sc, tasks, calls, dvars>>

\* dispatch, case "TRANSMIT" / "ICE_CANDIDATE": decode, then Viewer.OnRemoteICECandidate,
\* which starts a goroutine for Peer.AddRemoteICECandidate
DispatchIceCandidate ==
    /\ Running
    /\ procs.read = "dispatch"
    /\ ev.frame.method = "TRANSMIT" /\ ev.frame.messageType = "ICE_CANDIDATE"
    /\ LET candidate == DecodePayload(ev.frame.payload)
       IN  IF candidate.err
           THEN UNCHANGED <<ev, tasks>>
           ELSE /\ tasks' = Append(tasks, [candidate |-> candidate.text, pc |-> "wait",
                                           early |-> ~peer.remoteDescSet, err |-> FALSE])
                /\ ev' = [ev EXCEPT !.handler = "OnRemoteICECandidate",
                                    !.ops = <<Op("go AddRemoteICECandidate",
                                                 candidate.text, "")>>]
    /\ procs' = [procs EXCEPT !.read = "top"]
    /\ UNCHANGED <<sc, sess, peer, crashed, calls, dvars>>

\* dispatch, the cases that only log: JOIN_LIVE_RESPONSE, TRANSMIT_RESPONSE, RESPONSE,
\* a TRANSMIT of another message type, an unknown method
DispatchIgnored ==
    /\ Running
    /\ procs.read = "dispatch"
    /\ ev.frame.method \notin {"AUTH_RESPONSE", "PEER_IN", "PEER_OUT", "TRANSMIT"}
       \/ /\ ev.frame.method = "TRANSMIT"
          /\ ev.frame.messageType \notin {"SDP_ANSWER", "ICE_CANDIDATE"}
    /\ procs' = [procs EXCEPT !.read = "top"]
    /\ UNCHANGED <<sc, sess, ev, peer, tasks, crashed, calls, dvars>>

\* sendJSON 106 in the read loop (a handler's send): c.mu.Lock()
ReadSendLock ==
    /\ Running
    /\ procs.read = "lock"
    /\ CanLock(sc, "read")
    /\ sc' = [sc EXCEPT !.mu = "read"]
    /\ procs' = [procs EXCEPT !.read = "write"]
    /\ UNCHANGED <<sess, ev, peer, tasks, crashed, calls, dvars>>

\* sendJSON 109-118 in the read loop: WriteMessage (an error is logged), c.mu.Unlock();
\* the handler goes on with its next send, or returns to the loop
ReadSendWrite ==
    /\ Running
    /\ procs.read = "write"
    /\ sc' = [sc EXCEPT !.mu = "none"]
    /\ ev' = [ev EXCEPT !.writes = Append(@, Head(ev.out)), !.out = Tail(@)]
    /\ procs' = [procs EXCEPT !.read = IF Tail(ev.out) = <<>> THEN "top" ELSE "lock"]
    /\ UNCHANGED <<sess, peer, tasks, crashed, calls, dvars>>

\* Peer.SetOnICECandidate, the engine's callback after the local description is set:
\* a loopback candidate is filtered, any other goes to sc.SendICECandidate (main.go 99-101)
LocalCandidate ==
    /\ Running
    /\ procs.ice = "idle"
    /\ sess.offered /\ sess.peerCloses = 0
    /\ sess.locals < MaxLocal
    /\ \E loopback \in BOOLEAN :
          procs' = [procs EXCEPT !.ice = IF loopback THEN "idle" ELSE "lock"]
    /\ sess' = [sess EXCEPT !.locals = @ + 1]
    /\ UNCHANGED <<sc, ev, peer, tasks, crashed, calls, dvars>>

\* sendJSON 106 in the candidate callback: c.mu.Lock()
IceSendLock ==
    /\ Running
    /\ procs.ice = "lock"
    /\ CanLock(sc, "ice")
    /\ sc' = [sc EXCEPT !.mu = "ice"]
    /\ procs' = [procs EXCEPT !.ice = "write"]
    /\ UNCHANGED <<sess, ev, peer, tasks, crashed, calls, dvars>>

\* sendJSON 109-118 in the candidate callback: WriteMessage, c.mu.Unlock()
IceSendWrite ==
    /\ Running
    /\ procs.ice = "write"
    /\ sc' = [sc EXCEPT !.mu = "none"]
    /\ procs' = [procs EXCEPT !.ice = "idle"]
    /\ UNCHANGED <<sess, ev, peer, tasks, crashed, calls, dvars>>

\* pingLoop 285-288: the ticker fires
PingTick ==
    /\ Running
    /\ procs.ping = "wait"
    /\ sess.pings < MaxPings
    /\ sess' = [sess EXCEPT !.pings = @ + 1]
    /\ procs' = [procs EXCEPT !.ping = "lock"]
    /\ UNCHANGED <<sc, ev, peer, tasks, crashed, calls, dvars>>

\* pingLoop 285-287: c.closed is closed; return
PingStop ==
    /\ Running
    /\ procs.ping = "wait"
    /\ sc.closed
    /\ procs' = [procs EXCEPT !.ping = "done"]
    /\ UNCHANGED <<sc, sess, ev, peer, tasks, crashed, calls, dvars>>

\* pingLoop 289: c.mu.Lock()
PingLock ==
    /\ Running
    /\ procs.ping = "lock"
    /\ CanLock(sc, "ping")
    /\ sc' = [sc EXCEPT !.mu = "ping"]
    /\ procs' = [procs EXCEPT !.ping = "write"]
    /\ UNCHANGED <<sess, ev, peer, tasks, crashed, calls, dvars>>

\* pingLoop 290-304: WriteControl (it fails on a closed socket, and may fail on an open
\* one), c.mu.Unlock(); after an error the loop returns, whether c.closed is closed or not
PingWrite ==
    /\ Running
    /\ procs.ping = "write"
    /\ \E writeOk \in BOOLEAN :
          /\ writeOk => sc.conn = "open"
          /\ procs' = [procs EXCEPT !.ping = IF writeOk THEN "wait" ELSE "done"]
          /\ sess' = [sess EXCEPT !.pingFailedOpen = @ \/ (~writeOk /\ ~sc.closed)]
    /\ sc' = [sc EXCEPT !.mu = IF @ = "ping" THEN "none" ELSE @]
    /\ UNCHANGED <<ev, peer, tasks, crashed, calls, dvars>>

\* where goroutine g continues when its c.Close() returns: the read loop is over; main
\* goes on with its next teardown step
AfterClose(g) ==
    /\ procs' = [procs EXCEPT ![g] = IF g = "read" THEN "done" ELSE "teardown"]
    /\ sess' = [sess EXCEPT !.step = IF g = "main" THEN @ + 1 ELSE @]

\* Client.Close 94-99, the select: c.closed is closed, return; else the default case
CloseSelect ==
    /\ Running
    /\ \E g \in {"read", "main"} :
          /\ procs[g] = "closeSel"
          /\ IF sc.closed
             THEN AfterClose(g)
             ELSE /\ procs' = [procs EXCEPT ![g] = "closeChan"]
                  /\ UNCHANGED sess
    /\ UNCHANGED <<sc, ev, peer, tasks, crashed, calls, dvars>>

\* Client.Close 98: close(c.closed), a Go panic on a channel that is closed already
CloseChan ==
    /\ Running
    /\ \E g \in {"read", "main"} :
          /\ procs[g] = "closeChan"
          /\ IF sc.closed
             THEN /\ crashed' = TRUE
                  /\ sc' = [sc EXCEPT !.faults = @ + 1]
                  /\ UNCHANGED procs
             ELSE /\ sc' = [sc EXCEPT !.closed = TRUE, !.raised = @ + 1]
                  /\ procs' = [procs EXCEPT ![g] = "closeConn"]
                  /\ UNCHANGED crashed
    /\ UNCHANGED <<sess, ev, peer, tasks, calls, dvars>>

\* Client.Close that leaves the socket open.
CloseSocket_Skipped(c) == c

\* c.conn.Close() of Client.Close
CloseSocket(c) == [c EXCEPT !.conn = "closed", !.connCloses = @ + 1]

\* Client.Close 100-102: c.conn.Close()
CloseConn ==
    /\ Running
    /\ \E g \in {"read", "main"} :
          /\ procs[g] = "closeConn"
          /\ sc' = CloseSocket(sc)
          /\ AfterClose(g)
    /\ UNCHANGED <<ev, peer, tasks, crashed, calls, dvars>>

\* main.go 108: <-ctx.Done() returns
MainAwait ==
    /\ Running
    /\ procs.main = "wait"
    /\ sess.cancelled
    /\ procs' = [procs EXCEPT !.main = "teardown"]
    /\ sess' = [sess EXCEPT !.step = 1]
    /\ UNCHANGED <<sc, ev, peer, tasks, crashed, calls, dvars>>

\* main.go 111-112: the next teardown call, peer.Close() or sc.Close()
MainTeardown ==
    /\ Running
    /\ procs.main = "teardown"
    /\ sess.step <= Len(Teardown)
    /\ IF Teardown[sess.step] = "peer"
       THEN /\ sess' = [sess EXCEPT !.peerCloses = @ + 1, !.log = Append(@, "peer"),
                                    !.step = @ + 1]
            /\ UNCHANGED procs
       ELSE /\ sess' = [sess EXCEPT !.log = Append(@, "socket")]
            /\ procs' = [procs EXCEPT !.main = "closeSel"]
    /\ UNCHANGED <<sc, ev, peer, tasks, crashed, calls, dvars>>

\* main.go 114-115: main returns (the deferred cancel() runs) and the process ends
MainReturn ==
    /\ Running
    /\ procs.main = "teardown"
    /\ sess.step > Len(Teardown)
    /\ sess' = [cancel(sess) EXCEPT !.exited = TRUE]
    /\ procs' = [procs EXCEPT !.main = "done"]
    /\ UNCHANGED <<sc, ev, peer, tasks, crashed, calls, dvars>>

\* main.go 86: the peer exists, the signal goroutine waits, nothing is wired yet
InitSession ==
    /\ DepackIdle
    /\ peer = NewPeer
    /\ tasks = <<>>
    /\ crashed = FALSE
    /\ calls = [answers |-> <<>>, candidates |-> <<>>]
    /\ sc = NewClient
    /\ procs = [read |-> "off", ping |-> "off", ice |-> "idle", main |-> "wire",
                sig |-> "wait"]
    /\ sess = NewSession
    /\ ev = NoEvent
    /\ readers = NoReaders

\* the steps of the program itself, and the steps that wait for the world
ProgramStep ==
    \/ MainWire \/ ReadClosedCheck \/ ReadClosedSocket
    \/ DispatchAuthResponse \/ DispatchPeerIn \/ DispatchPeerOut \/ DispatchSdpAnswer
    \/ DispatchIceCandidate \/ DispatchIgnored
    \/ ReadSendLock \/ ReadSendWrite \/ IceSendLock \/ IceSendWrite
    \/ PingStop \/ PingLock \/ PingWrite
    \/ CloseSelect \/ CloseChan \/ CloseConn
    \/ MainAwait \/ MainTeardown \/ MainReturn
    \/ AwaitRemoteDesc \/ ApplyCandidate
WorldStep ==
    \/ MainConnect \/ Signal \/ ReadError \/ ReadFrame \/ LocalCandidate \/ PingTick

NextSession == ProgramStep \/ WorldStep

SpecSession == InitSession /\ [][NextSession]_vars

\* the Go scheduler runs every goroutine that can take a step
SpecSessionFair == SpecSession /\ WF_vars(ProgramStep)

(***************************************************************************)
(* Properties of the depacketizer.                                         *)
(***************************************************************************)
\* the last call delivered a payload of these kinds
Called == last.i # 0
LastPayload == last.in.payload
LastIsFragment == Called /\ IsFragment(LastPayload)
LastIsStart == Called /\ IsStartFragment(LastPayload)
LastIsEnd == Called /\ IsEndFragment(LastPayload)
\* the last call delivered the fragment that continues the run in progress
LastContinuesRun ==
    LastIsFragment /\ ~LastIsStart /\ last.pre.active /\ last.in.seq = last.pre.next
\* both variants returned exactly `units` and did not fault
Returned(units) ==
    /\ last.nalus = units /\ ~last.fault
    /\ last.wnalus = units /\ ~last.wfault

\* C1: an FU-A start fragment, k >= 0 middle fragments and an end fragment arriving with
\* consecutive sequence numbers (no other FU-A fragment in between) yield no unit from
\* the start and middle calls and one unit from the end call: the reconstructed header
\* byte followed by the data bytes of all fragments in arrival order.
C1_FuaRunReassembled ==
    /\ (LastIsStart /\ ~LastIsEnd) => Returned(<<>>)
    /\ (LastContinuesRun /\ ~LastIsEnd) => Returned(<<>>)
    /\ (LastContinuesRun /\ LastIsEnd) =>
          Returned(<<last.pre.bytes \o FragmentData(LastPayload)>>)

\* C1 witness: an end fragment completed a run of start, middle, end across the
\* uint16 wrap and the unit 0x65 01 03 04 came out.
C1_Witness ==
    /\ LastContinuesRun /\ LastIsEnd
    /\ last.in.seq = 0
    /\ last.nalus = <<(<<101, 1, 3, 4>>)>>
    /\ last.wnalus = <<(<<101, 1, 3, 4>>)>>

\* C2: once a non-start fragment arrived out of sequence during a reassembly, that call
\* and every further middle or end fragment return no unit until a start fragment arrives.
C2_GapDropsUntilStart ==
    (LastIsFragment /\ ~LastIsStart
       /\ ((last.pre.active /\ last.in.seq # last.pre.next) \/ last.pre.dropped))
    => Returned(<<>>)

\* C2, for the sequence-aware variant alone.
C2_GapDropsUntilStart_SeqAware ==
    (LastIsFragment /\ ~LastIsStart
       /\ ((last.pre.active /\ last.in.seq # last.pre.next) \/ last.pre.dropped))
    => (last.nalus = <<>> /\ ~last.fault)

\* C3: a middle or end fragment delivered while no reassembly is in progress yields no
\* unit, and a reassembly started afterwards produces only the bytes of its own fragments.
C3_OrphanFragmentDropped ==
    /\ (LastIsFragment /\ ~LastIsStart /\ ~last.pre.active) => Returned(<<>>)
    /\ (LastContinuesRun /\ LastIsEnd /\ last.pre.orphans) =>
          Returned(<<last.pre.bytes \o FragmentData(LastPayload)>>)

\* C3, for the sequence-aware variant alone.
C3_OrphanFragmentDropped_SeqAware ==
    /\ (LastIsFragment /\ ~LastIsStart /\ ~last.pre.active) =>
          (last.nalus = <<>> /\ ~last.fault)
    /\ (LastContinuesRun /\ LastIsEnd /\ last.pre.orphans) =>
          last.nalus = <<last.pre.bytes \o FragmentData(LastPayload)>>

\* C4: a payload whose first byte has NAL unit type 1..23 is returned as the sole unit,
\* byte for byte, whatever the sequence number and the reassembly state.
C4_SingleNalReturned ==
    (Called /\ Len(LastPayload) >= 1 /\ NaluType(LastPayload[1]) \in 1..23)
    => Returned(<<LastPayload>>)

\* C4 witness: a type-23 payload delivered in the middle of a reassembly came back whole.
C4_Witness ==
    /\ Called /\ last.pre.active
    /\ LastPayload = <<23, 1>>
    /\ last.nalus = <<(<<23, 1>>)>>

\* C5: a STAP-A payload of n sub-NALs, each with its non-zero 2-byte big-endian size and
\* fitting in the payload, yields exactly those n sub-NALs in order.
C5_StapaUnitsInOrder ==
    (Called /\ last.in.source.built /\ last.in.source.rest = <<>>)
    => Returned(last.in.source.units)

\* C5 witness: the payload 18 00 02 A B 00 01 C gave the two units AB and C.
C5_Witness ==
    /\ Called /\ last.in.source.built
    /\ LastPayload = <<24, 0, 2, 1, 2, 0, 1, 3>>
    /\ last.nalus = <<(<<1, 2>>), (<<3>>)>>
    /\ last.wnalus = <<(<<1, 2>>), (<<3>>)>>

\* C6: the first declared sub-NAL size 0 of a STAP-A payload ends parsing: the result is
\* the units found before it, with no empty unit and nothing located after the zero size.
C6_StapaZeroSizeEndsParsing ==
    (Called /\ last.in.source.built /\ ZeroSizeRest(last.in.source.rest))
    => Returned(last.in.source.units)

\* C6, for the sequence-aware variant alone.
C6_StapaZeroSizeEndsParsing_SeqAware ==
    (Called /\ last.in.source.built /\ ZeroSizeRest(last.in.source.rest))
    => (last.nalus = last.in.source.units /\ ~last.fault)

\* C7: the results an instance returns are those it returns when its calls are made
\* with no call on the other instance, and its object is the one its own calls produce.
C7_InstancesIndependent ==
    /\ last.nalus = last.soloNalus
    /\ last.wnalus = last.wsoloNalus
    /\ \A i \in DOMAIN inst : heap[inst[i]] = solo[i] /\ wheap[inst[i]] = wsolo[i]

\* C7 witness: d1 completed its unit while d2 was in a reassembly of its own.
C7_Witness ==
    /\ last.i = 1 /\ last.nalus # <<>>
    /\ heap[inst[2]].fuaStarted

\* C8: depacketize never faults, and returns no unit for an empty payload, for the NAL
\* unit types 0, 25..27 and 29..31, and for an FU-A payload shorter than 2 bytes.
C8_MalformedYieldsNothing ==
    /\ ~last.fault /\ ~last.wfault
    /\ (Called /\ (\/ LastPayload = <<>>
                   \/ /\ Len(LastPayload) >= 1
                      /\ NaluType(LastPayload[1]) \in {0, 25, 26, 27, 29, 30, 31}
                   \/ /\ Len(LastPayload) = 1
                      /\ NaluType(LastPayload[1]) = 28))
       => Returned(<<>>)

\* C8 witness: an FU-A indicator byte alone was delivered in the middle of a reassembly.
C8_Witness ==
    /\ Called /\ last.pre.active
    /\ LastPayload = <<124>>
    /\ last.nalus = <<>> /\ ~last.fault

\* the last call delivered the fragment that breaks the run in progress
LastBreaksRun ==
    LastIsFragment /\ ~LastIsStart /\ last.pre.active /\ last.in.seq # last.pre.next
\* the last call delivered a non-start fragment while no run was in progress
LastIsOrphan == LastIsFragment /\ ~LastIsStart /\ ~last.pre.active
\* the unit of a start fragment that is also the end fragment
SingleUnit(p) == <<FragmentHeader(p)>> \o FragmentData(p)
\* `nalus`, returned for the last fragment, holds nothing, or the one unit made of the
\* fragments of the contiguous run that the fragment closes
FromOneRun(nalus) ==
    \/ nalus = <<>>
    \/ LastIsStart /\ LastIsEnd /\ nalus = <<SingleUnit(LastPayload)>>
    \/ LastContinuesRun /\ LastIsEnd
          /\ nalus = <<last.pre.bytes \o FragmentData(LastPayload)>>

\* C23: every unit returned for an FU-A fragment is the reassembly of one contiguous
\* run: the header of its start fragment, then the data of the fragments from that
\* start to the end fragment, each arriving with the next sequence number; no byte
\* received before the start fragment or after a gap is part of it.
C23_UnitsFromOneContiguousRun ==
    LastIsFragment => (FromOneRun(last.nalus) /\ FromOneRun(last.wnalus))

\* C23, for the sequence-aware variant alone.
C23_UnitsFromOneContiguousRun_SeqAware ==
    LastIsFragment => FromOneRun(last.nalus)

C25_StartEndFragmentIsOneUnit ==
    (LastIsStart /\ LastIsEnd)
    => /\ Returned(<<SingleUnit(LastPayload)>>)
       /\ ~heap[inst[last.i]].fuaStarted
       /\ heap[inst[last.i]].fuaBuf = <<>>
       /\ wheap[inst[last.i]].fuaBuf = <<>>

\* C25 witness: the fragment 7C C5 07 arrived in the middle of a reassembly and came
\* out as the unit 65 07.
C25_Witness ==
    /\ LastIsStart /\ LastIsEnd
    /\ last.pre.active /\ Len(last.pre.bytes) >= 2
    /\ LastPayload = FuSingle
    /\ last.nalus = <<(<<101, 7>>)>>
    /\ last.wnalus = <<(<<101, 7>>)>>
    /\ heap[inst[last.i]].fuaBuf = <<>>

\* C26: a STAP-A payload whose sub-NALs are followed by a size larger than the bytes
\* after it, or by a single byte, yields the sub-NALs before it and nothing else, and
\* does not fault.
C26_StapaTruncatedEndsParsing ==
    (Called /\ last.in.source.built /\ TruncatedRest(last.in.source.rest))
    => Returned(last.in.source.units)

\* C26 witness: the payload 18 00 01 A 00 03 B (a size of 3 before one byte) gave the
\* unit A alone.
C26_Witness ==
    /\ Called /\ last.in.source.built
    /\ LastPayload = <<24, 0, 1, 2, 0, 3, 1>>
    /\ last.nalus = <<(<<2>>)>>
    /\ last.wnalus = <<(<<2>>)>>

Started == {k \in DOMAIN readers.tasks : readers.tasks[k].handle # 0}

\* C31: every video track reader has a depacketizer of its own: no two readers hold
\* the same object, no object was called by two readers, and the object of a reader
\* is, like the units it got, what its own packets alone produce.
C31_ReaderOwnsItsDepacketizer ==
    /\ \A j, k \in Started :
          j # k => inst[readers.tasks[j].handle] # inst[readers.tasks[k].handle]
    /\ \A a \in DOMAIN readers.callers : Cardinality(readers.callers[a]) <= 1
    /\ \A k \in Started :
          LET h == readers.tasks[k].handle
          IN  /\ readers.callers[inst[h]] \subseteq {k}
              /\ heap[inst[h]] = solo[h]
              /\ wheap[inst[h]] = wsolo[h]
    /\ last.nalus = last.soloNalus
    /\ last.wnalus = last.wsoloNalus

\* C31 witness: two video tracks are read; the first reader is in the middle of a
\* reassembly while the second reader's end fragment completed its own unit.
C31_Witness ==
    /\ Len(readers.tasks) = 2
    /\ \A k \in {1, 2} : readers.tasks[k].kind = "video" /\ readers.tasks[k].handle # 0
    /\ readers.callers[inst[readers.tasks[1].handle]] = {1}
    /\ readers.callers[inst[readers.tasks[2].handle]] = {2}
    /\ wheap[inst[readers.tasks[1].handle]].fuaBuf = <<101, 1>>
    /\ last.i = readers.tasks[2].handle
    /\ last.wnalus = <<(<<101, 1, 4>>)>>

(***************************************************************************)
(* Properties of the session.                                              *)
(***************************************************************************)
\* C9: no remote ICE candidate is handed to the peer connection before a remote
\* description has been applied successfully, and every onRemoteCandidate call starts
\* one application attempt (one goroutine carrying that candidate).
C9_CandidateAfterRemoteDescription ==
    /\ \A t \in DOMAIN tasks : tasks[t].pc \in {"add", "done"} => peer.remote # <<>>
    /\ peer.candidates # <<>> => peer.remote # <<>>
    /\ Len(tasks) = Len(calls.candidates)
    /\ \A t \in DOMAIN tasks : tasks[t].candidate = calls.candidates[t]

\* C9 witness: a candidate received before the answer was applied after it.
C9_Witness ==
    \E t \in DOMAIN tasks :
        /\ tasks[t].early
        /\ tasks[t].pc = "done" /\ ~tasks[t].err
        /\ peer.candidates # <<>>

\* C10: the gate is released at most once, and a second successful setRemoteDescription
\* call does not panic the process: it returns an error to the caller.
C10_SecondAnswerIsAnError ==
    /\ ~crashed
    /\ Cardinality({k \in DOMAIN calls.answers : calls.answers[k].result = "ok"}) <= 1
    /\ \A k \in DOMAIN calls.answers :
          (calls.answers[k].engineOk /\ \E j \in 1..(k - 1) : calls.answers[j].engineOk)
          => calls.answers[k].result = "error"

(***************************************************************************)
(* Properties of the coordinator's handlers. `ev` is the frame of the      *)
(* current iteration of the read loop; when the loop is back at its top    *)
(* the handler of that frame has returned.                                 *)
(***************************************************************************)
HandlerReturned(handler) == ev.handler = handler /\ procs.read = "top"

\* C11: an onAuthSuccess event makes one call, SendJoinLive, which writes one JOIN_LIVE
\* message; the handler makes no other call on the signaler, the peer or the context.
C11_AuthSuccessSendsOneJoinLive ==
    ev.handler = "OnAuthSuccess" =>
        /\ ev.ops = <<[op |-> "SendJoinLive", arg |-> "", result |-> ""]>>
        /\ ev.writes \in {<<>>, <<JoinLiveMessage>>}
        /\ procs.read = "top" => ev.writes = <<JoinLiveMessage>>
        /\ ev.gate[1] = ev.gate[2] /\ ev.cancelled[1] = ev.cancelled[2]

\* C11 witness: the handler of a successful AUTH_RESPONSE has returned and its
\* JOIN_LIVE was written.
C11_Witness ==
    /\ HandlerReturned("OnAuthSuccess")
    /\ ev.frame.method = "AUTH_RESPONSE"
    /\ ev.writes = <<JoinLiveMessage>>

\* C12: an onPeerIn event whose offer creation succeeds sends one SDP offer whose
\* decoded body is the text CreateOffer returned; when offer creation fails nothing is
\* sent and the process is ended.
C12_PeerInSendsTheOffer ==
    ev.handler = "OnPeerIn" =>
        LET made == ev.ops[1]
        IN  /\ made.op = "CreateOffer"
            /\ IF made.result = "error"
               THEN /\ ev.ops = <<made>>
                    /\ ev.writes = <<>>
                    /\ sess.fatal /\ sess.exited
               ELSE /\ ev.ops = <<made, [op |-> "SendSDPOffer", arg |-> made.result,
                                         result |-> ""]>>
                    /\ Len(ev.writes) <= 1
                    /\ procs.read = "top" => Len(ev.writes) = 1
                    /\ \A k \in DOMAIN ev.writes :
                          /\ ev.writes[k].method = "TRANSMIT"
                          /\ ev.writes[k].messageType = "SDP_OFFER"
                          /\ ~DecodePayload(ev.writes[k].payload).err
                          /\ DecodePayload(ev.writes[k].payload).text = made.result
                          /\ ev.writes[k].payload.type = "offer"

\* C12 witness: the offer "offerB" was made and the SDP offer carrying it was written.
C12_Witness ==
    /\ HandlerReturned("OnPeerIn")
    /\ ev.ops[1].result = "offerB"
    /\ Len(ev.writes) = 1
    /\ ev.writes[1].payload.text = "offerB"

\* C13: onPeerOut cancels the session, and the cancellation fires once per session:
\* whatever the number of PEER_OUT events and shutdown requests, the context is
\* cancelled once and main's teardown runs once.
C13_PeerOutCancelsOnce ==
    /\ ev.handler = "OnPeerOut" => (sess.cancelled /\ ev.cancelled[2])
    /\ sess.fired <= 1
    /\ sess.cancelled <=> sess.fired = 1
    /\ sess.peerCloses <= 1
    /\ Len(sess.log) <= 2
    /\ \A j, k \in DOMAIN sess.log : sess.log[j] = sess.log[k] => j = k

\* C13 witness: a PEER_OUT handled after the session was cancelled already, a shutdown
\* signal as well, and the one teardown has made both its calls.
C13_Witness ==
    /\ HandlerReturned("OnPeerOut")
    /\ ev.cancelled = <<TRUE, TRUE>>
    /\ procs.sig = "done"
    /\ Len(sess.log) = 2
    /\ sess.fired = 1

\* C14: an onSDPAnswer event makes one SetRemoteDescription call with the decoded
\* payload; when the call returns an error, the session is not cancelled, the gate is
\* as it was, and the read loop goes on with the next frame.
C14_AnswerFailureAbsorbed ==
    ev.handler = "OnSDPAnswer" =>
        /\ Len(ev.ops) = 1
        /\ ev.ops[1].op = "SetRemoteDescription"
        /\ ev.ops[1].arg = ev.frame.payload.text
        /\ ev.writes = <<>>
        /\ ev.ops[1].result = "error" =>
              /\ ev.cancelled[1] = ev.cancelled[2]
              /\ ev.gate[1] = ev.gate[2]
              /\ procs.read = "top"
              /\ sess.absorbed

\* C14 witness: after a failed answer, a later answer "answerB" was applied.
C14_Witness ==
    /\ sess.absorbed
    /\ HandlerReturned("OnSDPAnswer")
    /\ ev.ops[1].arg = "answerB"
    /\ ev.ops[1].result = "ok"
    /\ ev.gate = <<FALSE, TRUE>>

(***************************************************************************)
(* Properties of the signaling client.                                     *)
(***************************************************************************)
\* the goroutines that are inside a write on the socket
Writers == {g \in {"read", "ping", "ice"} : procs[g] = "write"}

\* C15: at most one goroutine is writing to the socket at any time, and a goroutine
\* that is writing holds the send lock mu.
C15_OneWriterUnderLock ==
    /\ Cardinality(Writers) <= 1
    /\ \A g \in Writers : sc.mu = g

\* C15 witness: the read loop is writing while the keepalive loop and the candidate
\* callback both wait for the lock.
C15_Witness ==
    /\ procs.read = "write"
    /\ procs.ping = "lock"
    /\ procs.ice = "lock"

\* C16: no Close call faults, the closed channel is closed once and the socket is
\* closed at most once, also when the read loop's exit and main's teardown call Close
\* at the same time.
C16_CloseIsSafeToRepeat ==
    /\ sc.faults = 0
    /\ sc.raised <= 1
    /\ sc.connCloses <= 1

\* C17: a keepalive write that fails while the client is not closed leads to the
\* client being closed: the socket is closed and the read loop has halted (or the
\* process has ended).
C17_PingFailureClosesClient ==
    sess.pingFailedOpen
    ~> ((sc.closed /\ sc.conn = "closed" /\ procs.read = "done") \/ ~Running)

\* C18: a read error on the socket leads to the teardown of the session: the context is
\* cancelled and the peer connection and the socket are closed (or the process has
\* ended).
C18_ReadErrorTearsDownSession ==
    sess.readErr
    ~> ((sess.cancelled /\ sess.peerCloses > 0 /\ sc.conn = "closed") \/ ~Running)

(***************************************************************************)
(* Properties of main's teardown.                                          *)
(***************************************************************************)
\* C19: main's teardown closes nothing before the context is cancelled, and then closes
\* the peer connection first and the signaling socket second.
C19_TeardownPeerThenSocket ==
    /\ sess.log # <<>> => sess.cancelled
    /\ sess.peerCloses > 0 => sess.cancelled
    /\ sess.log \in {<<>>, <<"peer">>, <<"peer", "socket">>}
    /\ procs.main \in {"closeSel", "closeChan", "closeConn"} => sess.peerCloses = 1

\* C19 witness: main has closed the peer connection and then the socket, and returned.
C19_Witness ==
    /\ sess.log = <<"peer", "socket">>
    /\ sess.peerCloses = 1
    /\ sc.conn = "closed"
    /\ procs.main = "done"

\* C20, the state after dispatch: an AUTH_RESPONSE has the handler OnAuthSuccess exactly
\* when its code is present and 0; otherwise no handler is called, nothing is sent and
\* the read loop goes on.
C20_AfterAuthResponse ==
    (ev.frame.method = "AUTH_RESPONSE" /\ procs.read # "dispatch") =>
        IF ev.frame.code.present /\ ev.frame.code.value = 0
        THEN ev.handler = "OnAuthSuccess"
        ELSE /\ ev.handler = "" /\ ev.ops = <<>>
             /\ ev.out = <<>> /\ ev.writes = <<>>
             /\ procs.read = "top"

\* C20, the dispatch step of an AUTH_RESPONSE without the success code: it changes
\* neither the client (the socket stays as it is, no AUTH is sent again) nor the peer
\* nor the context.
C20_RejectedAuthStep ==
    (/\ procs.read = "dispatch"
     /\ ev.frame.method = "AUTH_RESPONSE"
     /\ ~(ev.frame.code.present /\ ev.frame.code.value = 0)
     /\ procs'.read # "dispatch")
    => (sc' = sc /\ sess' = sess /\ peer' = peer /\ tasks' = tasks)

\* C20: an AUTH_RESPONSE calls onAuthSuccess only when it carries the success code
\* (present and 0); any other AUTH_RESPONSE calls no handler, sends nothing (no
\* JOIN_LIVE, no new AUTH) and leaves the connection open.
C20_AuthSuccessOnlyOnCodeZero ==
    []C20_AfterAuthResponse /\ [][C20_RejectedAuthStep]_vars

\* C20 witness: an AUTH_RESPONSE without a code was passed over: no handler was called,
\* the one AUTH of connect is all that was sent, and the socket is open.
C20_Witness ==
    /\ ev.frame.method = "AUTH_RESPONSE"
    /\ ev.frame.code = [present |-> FALSE, value |-> 0]
    /\ ev.handler = "" /\ procs.read = "top"
    /\ sess.frames = 1
    /\ sess.auths = 1
    /\ sc.conn = "open"

\* C21: for a frame that is not JSON, has an unknown method, is a JOIN_LIVE_RESPONSE,
\* TRANSMIT_RESPONSE or RESPONSE, is a TRANSMIT of an unknown message type, or carries
\* a payload that fails base64 or JSON decoding, the read loop calls no handler, sends
\* nothing and goes back to the top of its loop.
C21_AfterIgnoredFrame ==
    (HoldsFrame /\ Ignorable(ev.frame))
    => /\ ev.handler = "" /\ ev.ops = <<>> /\ ev.out = <<>> /\ ev.writes = <<>>
       /\ procs.read \in {"dispatch", "top"}
       /\ ~ev.frame.json => procs.read = "top"

\* C21: the step that takes a frame that is not JSON, and the step that dispatches an
\* ignorable frame, end no process and close nothing: the client, the context, the
\* peer and the candidate tasks are as before, and the loop is at its top.
C21_IgnoredFrameStep ==
    /\ (procs.read = "read" /\ procs'.read # "read" /\ ev'.frame # NoFrame
          /\ ~ev'.frame.json)
       => /\ procs'.read = "top"
          /\ crashed' = crashed /\ sess'.exited = sess.exited
          /\ sess'.cancelled = sess.cancelled
          /\ UNCHANGED <<sc, peer, tasks>>
    /\ (procs.read = "dispatch" /\ procs'.read # "dispatch" /\ Ignorable(ev.frame))
       => /\ procs'.read = "top"
          /\ UNCHANGED <<sc, sess, ev, peer, tasks, crashed>>

\* C21, both parts.
C21_IgnoredFramesAreHarmless == []C21_AfterIgnoredFrame /\ [][C21_IgnoredFrameStep]_vars

\* C21 witness: an ignorable frame went by without a handler call, and the next frame,
\* an AUTH_RESPONSE with code 0, had its handler called and its JOIN_LIVE sent.
C21_Witness ==
    /\ ev.after
    /\ ev.frame.method = "AUTH_RESPONSE"
    /\ ev.handler = "OnAuthSuccess"
    /\ ev.writes = <<JoinLiveMessage>>
    /\ sess.frames = 2
    /\ Running

\* C22: the coordinator holds the signaler before the client is connected: whenever
\* the socket exists, a loop of the client runs or a handler has been called, the
\* signaler is set.
C22_SignalerSetBeforeStart ==
    /\ (sc.conn # "nil" \/ procs.read # "off" \/ procs.ping # "off") => sess.signalerSet
    /\ ev.handler # "" => sess.signalerSet

\* C22 witness: the PEER_IN handler ran with the signaler set and its offer was written.
C22_Witness ==
    /\ sess.signalerSet
    /\ ev.handler = "OnPeerIn"
    /\ Len(ev.writes) = 1 /\ ev.writes[1].messageType = "SDP_OFFER"
    /\ procs.main = "wait"

\* C27: the ICE_CANDIDATE handler returns at once, whether the gate is released or
\* not: once it is recorded the read loop is back at the top of its loop.
C27_CandidateHandlerReturns ==
    ev.handler = "OnRemoteICECandidate" => procs.read = "top"

\* every candidate received so far has been handed to the engine
AllCandidatesApplied == \A t \in DOMAIN tasks : tasks[t].pc = "done"

\* C27: whenever an answer has been applied, a time comes at which every candidate
\* received, before the answer or after it, has been handed to the engine, unless
\* the process ends first.
C27_CandidatesApplied ==
    (peer.remote # <<>>) ~> (AllCandidatesApplied \/ ~Running)

\* C27, both parts.
C27_CandidatesNeverBlockDispatch ==
    []C27_CandidateHandlerReturns /\ C27_CandidatesApplied

\* C27 witness: a candidate arrived before any answer, the read loop went on to
\* dispatch the SDP_ANSWER that released the gate, and the candidate was applied.
C27_Witness ==
    /\ Len(tasks) = 1
    /\ tasks[1].early /\ tasks[1].pc = "done" /\ ~tasks[1].err
    /\ peer.candidates = <<tasks[1].candidate>>
    /\ ev.handler = "OnSDPAnswer" /\ ev.gate = <<FALSE, TRUE>>

\* the messages the handler of the current frame has handed to sendJSON
HandlerSends == {ev.out[k] : k \in DOMAIN ev.out} \cup {ev.writes[k] : k \in DOMAIN ev.writes}

\* C28: connect sends AUTH once, before either loop runs, so before any frame is read,
\* any ping is due and any other message is written; a JOIN_LIVE is sent only by the
\* handler of an AUTH_RESPONSE with code 0, and an SDP offer only by the handler of a
\* PEER_IN.
C28_AuthFirstThenJoinThenOffer ==
    /\ sess.auths <= 1
    /\ (\/ procs.read # "off" \/ procs.ping # "off" \/ procs.ice # "idle"
        \/ sess.frames > 0 \/ sess.pings > 0 \/ sess.locals > 0
        \/ HandlerSends # {})
       => sess.auths = 1
    /\ \A m \in HandlerSends :
          /\ m.method = "JOIN_LIVE" =>
                /\ ev.frame.method = "AUTH_RESPONSE"
                /\ ev.frame.code = [present |-> TRUE, value |-> 0]
          /\ m.messageType = "SDP_OFFER" => ev.frame.method = "PEER_IN"

\* C28 witness: the first frame read was an AUTH_RESPONSE with code 0 and its JOIN_LIVE
\* is written, after the one AUTH of connect and before any ping.
C28_Witness ==
    /\ sess.auths = 1 /\ sess.frames = 1 /\ sess.pings = 0
    /\ ev.frame.method = "AUTH_RESPONSE"
    /\ ev.writes = <<JoinLiveMessage>>
    /\ procs.read = "top"

\* a call of Client.Close has closed c.closed and gone through to its return
CloseReturned == sc.raised > 0 /\ procs.read # "closeConn" /\ procs.main # "closeConn"

\* C29: once c.closed is closed, the read loop and the keepalive loop have both
\* returned at some later time, unless the process ends first.
C29_LoopsHalt ==
    sc.closed ~> ((procs.read = "done" /\ procs.ping = "done") \/ ~Running)

\* C29: once Close has returned, no step takes a new frame from the socket, and no
\* ping write succeeds.
C29_QuietAfterCloseStep ==
    CloseReturned
    => /\ sess'.frames = sess.frames
       /\ ~(procs.ping = "write" /\ procs'.ping = "wait")
       /\ (ev'.handler # ev.handler /\ ev'.handler # "") => ev'.frame = ev.frame

\* C29, both parts.
C29_CloseHaltsBothLoops == C29_LoopsHalt /\ [][C29_QuietAfterCloseStep]_vars

\* C29 witness: main called Close in its teardown and Close has returned; the read
\* loop, which took no frame and met no read error before, has returned, and so has
\* the keepalive loop, while the process still runs.
C29_Witness ==
    /\ sess.log = <<"peer", "socket">> /\ procs.main = "teardown"
    /\ sc.closed /\ sc.conn = "closed" /\ sc.raised = 1
    /\ sess.frames = 0 /\ ~sess.readErr
    /\ procs.read = "done" /\ procs.ping = "done"
    /\ Running

\* C30: a candidate task that waits for the remote description when the session is
\* cancelled and the peer closed, the gate never released, leaves its wait.
C30_TornDownSessionReleasesTasks ==
    \A t \in 1..MaxFrames :
       (/\ t \in DOMAIN tasks /\ tasks[t].pc = "wait"
        /\ sess.cancelled /\ sess.peerCloses > 0 /\ ~peer.remoteDescSet)
       ~> (t \in DOMAIN tasks /\ tasks[t].pc # "wait")

====
